---- MODULE Spec2Model ----
(***************************************************************************)
(* The authoritative match-state engine of fp-progjar: the multi-stage     *)
(* PlayerServerProtocol of src/Edited_Dustin/protocol.py, served by one    *)
(* thread per connection (src/server.py) and by the threading.Timer        *)
(* threads that _handle_stage_win starts.                                  *)
(*                                                                         *)
(* Granularity.  A client command runs "with self._lock": its handler is   *)
(* one step, except collect_gem, whose two mutating statements (the        *)
(* counter increment of line 285 and the removal of line 286) are two      *)
(* steps in the thread-per-connection specification SpecConc.  The timer   *)
(* callback _load_next_stage takes no lock; it is modelled as four steps   *)
(* (the test of lines 165-166 and three groups of statements of            *)
(* _load_level), and these interleave freely with everything else.         *)
(***************************************************************************)
EXTENDS Integers, Sequences, FiniteSets, Bags, TLC

VARIABLES
    players,             \* self.players: player_id -> player dict
    gems,                \* self.gems: gem_id -> {x, y, type}
    hazards,             \* self.hazards: hazard_id -> {type, x, y, width, height}
    walls,               \* self.walls: wall_id -> {x, y, width, height}
    exit_area,           \* self.exit_area
    scores,              \* self.scores
    current_level_index, \* self.current_level_index (0-based)
    match_winner,        \* self.match_winner
    stage_winner,        \* self.stage_winner
    start_time,          \* self.start_time (None, or the instant it was set)
    next_gem_id,         \* self._next_gem_id
    black_gems_required, \* self.black_gems_required
    white_gems_required, \* self.white_gems_required
    winner,              \* self.winner (the single-stage engine of src/protocol.py only)
    timers,              \* the threading.Timer threads that are alive (a bag)
    lock,                \* the holder of self._lock
    conn,                \* per connection thread: position, request, response
    served,              \* history: the number of requests read so far
    collected            \* history: the gem ids collected since the stage index was set

engine == <<players, gems, hazards, walls, exit_area, scores, current_level_index,
            match_winner, stage_winner, start_time, next_gem_id,
            black_gems_required, white_gems_required, winner>>

vars == <<players, gems, hazards, walls, exit_area, scores, current_level_index,
          match_winner, stage_winner, start_time, next_gem_id,
          black_gems_required, white_gems_required, winner, timers, lock, conn,
          served, collected>>

----------------------------------------------------------------------------
(* Bounds of the model *)

\* Timer threads alive at the same time.
MaxTimers == 2

\* Requests read by the server in one run of Spec.
MaxCmds == 6

\* Requests read by the server in one run of SpecConc.
MaxConcCmds == 7

\* Requests read by the server in one run of SpecMatch.
MaxMatchCmds == 9
MaxBufTokens == 3

----------------------------------------------------------------------------
(* Program constants *)

\* src/protocol.py, the single-stage engine
map_width_single == 640
map_height_single == 480

\* src/Edited_Dustin/protocol.py, the multi-stage engine
map_width == 800
map_height == 600
default_player_lives == 1
total_stages == 5

None == "None"
Now == "t"

Truthy(v) == v # None

\* A Python dict is a function; d[k] = v overwrites.
EmptyDict == << >>
Put(d, k, v) == (k :> v) @@ d
Del(d, k) == [j \in (DOMAIN d) \ {k} |-> d[j]]

\* The level catalog of _define_levels.
Level1 ==
    [start_pos |-> [black |-> <<50, 532>>, white |-> <<702, 532>>],
     walls |-> << <<0, 580, 800, 20>>, <<200, 480, 400, 20>>, <<300, 380, 200, 20>>,
                  <<550, 280, 100, 20>>, <<250, 180, 100, 20>> >>,
     hazards |-> << <<"white", 300, 560, 100, 20>> >>,
     gems |-> << <<"black", 250, 450>>, <<"white", 500, 450>>,
                 <<"black", 350, 350>>, <<"white", 400, 350>> >>,
     exit |-> <<360, 40, 80, 80>>]

Level2 ==
    [start_pos |-> [black |-> <<50, 532>>, white |-> <<702, 532>>],
     walls |-> << <<0, 580, 150, 20>>, <<650, 580, 150, 20>>, <<250, 500, 100, 20>>,
                  <<450, 500, 100, 20>>, <<100, 400, 100, 20>>, <<600, 400, 100, 20>>,
                  <<300, 300, 200, 20>> >>,
     hazards |-> << <<"black", 150, 560, 50, 20>> >>,
     gems |-> << <<"black", 270, 470>>, <<"white", 470, 470>>, <<"black", 120, 370>>,
                 <<"white", 620, 370>>, <<"black", 390, 270>> >>,
     exit |-> <<360, 220, 80, 80>>]

Level3 ==
    [start_pos |-> [black |-> <<50, 332>>, white |-> <<702, 332>>],
     walls |-> << <<0, 380, 200, 20>>, <<600, 380, 200, 20>>, <<0, 580, 800, 20>>,
                  <<380, 480, 40, 100>>, <<250, 250, 300, 20>> >>,
     hazards |-> << <<"white", 20, 560, 350, 20>>, <<"black", 430, 560, 350, 20>> >>,
     gems |-> << <<"black", 100, 550>>, <<"black", 200, 550>>, <<"white", 600, 550>>,
                 <<"white", 700, 550>>, <<"black", 390, 220>>, <<"white", 490, 220>> >>,
     exit |-> <<360, 100, 80, 80>>]

Level4 ==
    [start_pos |-> [black |-> <<50, 532>>, white |-> <<702, 532>>],
     walls |-> << <<0, 580, 800, 20>>, <<150, 480, 50, 20>>, <<600, 480, 50, 20>>,
                  <<300, 400, 200, 20>>, <<100, 300, 50, 20>>, <<650, 300, 50, 20>>,
                  <<250, 200, 300, 20>> >>,
     hazards |-> << <<"white", 200, 560, 100, 20>>, <<"black", 500, 560, 100, 20>> >>,
     gems |-> << <<"black", 160, 450>>, <<"white", 610, 450>>, <<"black", 390, 370>>,
                 <<"white", 110, 270>>, <<"black", 660, 270>> >>,
     exit |-> <<360, 40, 80, 80>>]

Level5 ==
    [start_pos |-> [black |-> <<30, 532>>, white |-> <<722, 532>>],
     walls |-> << <<0, 580, 100, 20>>, <<700, 580, 100, 20>>, <<150, 500, 20, 80>>,
                  <<630, 500, 20, 80>>, <<250, 450, 300, 20>>, <<380, 200, 40, 250>>,
                  <<100, 350, 100, 20>>, <<600, 350, 100, 20>>, <<200, 150, 400, 20>> >>,
     hazards |-> << <<"black", 100, 560, 600, 20>>, <<"white", 250, 430, 300, 20>> >>,
     gems |-> << <<"black", 60, 550>>, <<"white", 730, 550>>, <<"black", 110, 320>>,
                 <<"white", 610, 320>>, <<"black", 250, 120>>, <<"white", 500, 120>> >>,
     exit |-> <<360, 40, 80, 80>>]

\* self.levels after _define_levels; levels[i + 1] is the code's self.levels[i].
levels == <<Level1, Level2, Level3, Level4, Level5>>

----------------------------------------------------------------------------
(* The engine state as one value: the object the methods work on *)

self ==
    [players |-> players, gems |-> gems, hazards |-> hazards, walls |-> walls,
     exit_area |-> exit_area, scores |-> scores,
     current_level_index |-> current_level_index,
     match_winner |-> match_winner, stage_winner |-> stage_winner,
     start_time |-> start_time, next_gem_id |-> next_gem_id,
     black_gems_required |-> black_gems_required,
     white_gems_required |-> white_gems_required, winner |-> winner,
     timers |-> timers, collected |-> collected]

\* The next state's fields are those of s.
Becomes(s) ==
    /\ players' = s.players
    /\ gems' = s.gems
    /\ hazards' = s.hazards
    /\ walls' = s.walls
    /\ exit_area' = s.exit_area
    /\ scores' = s.scores
    /\ current_level_index' = s.current_level_index
    /\ match_winner' = s.match_winner
    /\ stage_winner' = s.stage_winner
    /\ start_time' = s.start_time
    /\ next_gem_id' = s.next_gem_id
    /\ black_gems_required' = s.black_gems_required
    /\ white_gems_required' = s.white_gems_required
    /\ winner' = s.winner
    /\ timers' = s.timers
    /\ collected' = s.collected

----------------------------------------------------------------------------
(* Stage controller *)

_place_wall(s, x, y, width, height) ==
    LET wall_id == "wall_" \o ToString(Cardinality(DOMAIN s.walls))
    IN  [s EXCEPT !.walls = Put(@, wall_id,
                                [x |-> x, y |-> y, width |-> width, height |-> height])]

_place_gem(s, x, y, gem_type) ==
    LET gem_id == gem_type \o "_gem_" \o ToString(s.next_gem_id)
    IN  [s EXCEPT
            !.next_gem_id = @ + 1,
            !.gems = Put(@, gem_id, [x |-> x, y |-> y, type |-> gem_type]),
            !.black_gems_required = IF gem_type = "black" THEN @ + 1 ELSE @,
            !.white_gems_required = IF gem_type = "white" THEN @ + 1 ELSE @]

\* for wall in level_data['walls']: self._place_wall(*wall)
RECURSIVE PlaceWalls(_, _, _)
PlaceWalls(s, ws, i) ==
    IF i > Len(ws) THEN s
    ELSE PlaceWalls(_place_wall(s, ws[i][1], ws[i][2], ws[i][3], ws[i][4]), ws, i + 1)

\* for hazard in level_data['hazards']: ... (lines 143-145)
RECURSIVE PlaceHazards(_, _, _)
PlaceHazards(s, hs, i) ==
    IF i > Len(hs) THEN s
    ELSE LET hazard == hs[i]
             h_id == hazard[1] \o "_pool_" \o ToString(Cardinality(DOMAIN s.hazards))
         IN  PlaceHazards(
                 [s EXCEPT !.hazards = Put(@, h_id,
                     [type |-> hazard[1], x |-> hazard[2], y |-> hazard[3],
                      width |-> hazard[4], height |-> hazard[5]])],
                 hs, i + 1)

\* for gem in level_data['gems']: self._place_gem(gem[1], gem[2], gem[0])
RECURSIVE PlaceGems(_, _, _)
PlaceGems(s, gs, i) ==
    IF i > Len(gs) THEN s
    ELSE PlaceGems(_place_gem(s, gs[i][2], gs[i][3], gs[i][1]), gs, i + 1)

\* A reset of a player that leaves its gem counter and its exit flag alone.
_reset_player_for_new_stage_position_only(player_data, start_positions) ==
    LET color == player_data.color_type
        pos == IF color \in DOMAIN start_positions
               THEN start_positions[color]
               ELSE << IF color = "black" THEN 50 ELSE map_width - 50 - 48,
                       map_height - 20 - 48 >>
        had == "gems_collected" \in DOMAIN player_data
    IN  [color_type |-> color, x |-> pos[1], y |-> pos[2],
         lives |-> default_player_lives,
         gems_collected |-> IF had THEN player_data.gems_collected ELSE 0,
         at_exit |-> IF had THEN player_data.at_exit ELSE FALSE]

_reset_player_for_new_stage(player_data, start_positions) ==
    LET color == player_data.color_type
        pos == IF color \in DOMAIN start_positions
               THEN start_positions[color]
               ELSE << IF color = "black" THEN 50 ELSE map_width - 50 - 48,
                       map_height - 20 - 48 >>
    IN  [color_type |-> color, x |-> pos[1], y |-> pos[2],
         lives |-> default_player_lives, gems_collected |-> 0, at_exit |-> FALSE]

\* _load_level, lines 133-137: the index, the cleared registries, the counters.
LoadLevelClear(s, level_index) ==
    [s EXCEPT !.current_level_index = level_index,
              !.gems = EmptyDict, !.hazards = EmptyDict, !.walls = EmptyDict,
              !.black_gems_required = 0, !.white_gems_required = 0,
              !.next_gem_id = 0, !.stage_winner = None,
              !.collected = {}]

\* _load_level, lines 138-148: boundary walls, the level's walls, hazards, gems, exit.
LoadLevelPlace(s, level_index) ==
    LET level_data == levels[level_index + 1]
        s1 == _place_wall(s, 0, map_height - 20, map_width, 20)
        s2 == _place_wall(s1, 0, 0, 20, map_height)
        s3 == _place_wall(s2, map_width - 20, 0, 20, map_height)
        s4 == _place_wall(s3, 0, 0, map_width, 20)
        s5 == PlaceWalls(s4, level_data.walls, 1)
        s6 == PlaceHazards(s5, level_data.hazards, 1)
        s7 == PlaceGems(s6, level_data.gems, 1)
        exit_data == level_data.exit
    IN  [s7 EXCEPT !.exit_area = [x |-> exit_data[1], y |-> exit_data[2],
                                  width |-> exit_data[3], height |-> exit_data[4]]]

\* _load_level, lines 149-150: every registered player is reset.
LoadLevelPlayers(s, level_index) ==
    [s EXCEPT !.players =
        [pid \in DOMAIN s.players |->
            _reset_player_for_new_stage(s.players[pid],
                                        levels[level_index + 1].start_pos)]]

_load_level(s, level_index) ==
    IF level_index >= Len(levels) THEN s
    ELSE LoadLevelPlayers(LoadLevelPlace(LoadLevelClear(s, level_index), level_index),
                          level_index)

\* A determination that does not tell a tie from a lead of white.
_determine_final_winner_no_draw(s) ==
    [s EXCEPT !.match_winner =
        IF s.scores["player_black"] > s.scores["player_white"] THEN "player_black"
        ELSE "player_white"]

_determine_final_winner(s) ==
    [s EXCEPT !.match_winner =
        IF s.scores["player_black"] > s.scores["player_white"] THEN "player_black"
        ELSE IF s.scores["player_white"] > s.scores["player_black"] THEN "player_white"
        ELSE "draw"]

\* A reset that keeps the cumulative scores.
_full_reset_keeps_scores(s) ==
    _load_level([s EXCEPT !.players = EmptyDict,
                          !.match_winner = None, !.stage_winner = None,
                          !.start_time = None],
                0)

\* A reset that leaves the match clock running.
_full_reset_keeps_clock(s) ==
    _load_level([s EXCEPT !.players = EmptyDict,
                          !.scores = [player_black |-> 0, player_white |-> 0],
                          !.match_winner = None, !.stage_winner = None],
                0)

_full_reset(s) ==
    _load_level([s EXCEPT !.players = EmptyDict,
                          !.scores = [player_black |-> 0, player_white |-> 0],
                          !.match_winner = None, !.stage_winner = None,
                          !.start_time = None],
                0)

----------------------------------------------------------------------------
(* Command handlers.  Each returns the engine after it and the JSON result. *)

Ret(s, status, message) ==
    [s |-> s, result |-> [status |-> status, message |-> message]]

\* A Timer thread that has not fired yet; level_index is its argument of
\* _load_level once it has one.
Sleeping == [pc |-> "sleep", level_index |-> -1]

\* The toucher's own id in the place of the opponent's.
OpponentOf_self(color) == "player_" \o color

OpponentOf(color) == IF color = "black" THEN "player_white" ELSE "player_black"

\* A stage win that leaves the match open until the last stage is won.
_handle_stage_win_no_majority(s, winner_id) ==
    IF Truthy(s.stage_winner) THEN s
    ELSE LET s1 == [s EXCEPT !.stage_winner = winner_id,
                             !.scores[winner_id] = @ + 1]
         IN  IF s1.current_level_index + 1 >= total_stages
                 THEN _determine_final_winner(s1)
             ELSE [s1 EXCEPT !.timers = @ (+) SetToBag({Sleeping})]

\* A stage win that starts a timer on the last stage as on any other.
_handle_stage_win_no_final(s, winner_id) ==
    IF Truthy(s.stage_winner) THEN s
    ELSE LET s1 == [s EXCEPT !.stage_winner = winner_id,
                             !.scores[winner_id] = @ + 1]
         IN  IF s1.scores[winner_id] >= (total_stages \div 2) + 1
                 THEN _determine_final_winner(s1)
             ELSE [s1 EXCEPT !.timers = @ (+) SetToBag({Sleeping})]

\* A stage win that never starts a timer.
_handle_stage_win_no_timer(s, winner_id) ==
    IF Truthy(s.stage_winner) THEN s
    ELSE LET s1 == [s EXCEPT !.stage_winner = winner_id,
                             !.scores[winner_id] = @ + 1]
         IN  IF s1.scores[winner_id] >= (total_stages \div 2) + 1
                 THEN _determine_final_winner(s1)
             ELSE IF s1.current_level_index + 1 >= total_stages
                 THEN _determine_final_winner(s1)
             ELSE s1

_handle_stage_win(s, winner_id) ==
    IF Truthy(s.stage_winner) THEN s
    ELSE LET s1 == [s EXCEPT !.stage_winner = winner_id,
                             !.scores[winner_id] = @ + 1]
         IN  IF s1.scores[winner_id] >= (total_stages \div 2) + 1
                 THEN _determine_final_winner(s1)
             ELSE IF s1.current_level_index + 1 >= total_stages
                 THEN _determine_final_winner(s1)
             ELSE \* threading.Timer(3.0, self._load_next_stage).start()
                  [s1 EXCEPT !.timers = @ (+) SetToBag({Sleeping})]

\* str.lower() on the tokens the clients of this model send.
Lower(token) ==
    IF token = "BLACK" THEN "black"
    ELSE IF token = "WHITE" THEN "white"
    ELSE IF token = "RESET_GAME" THEN "reset_game"
    ELSE token

\* A registration that replaces the player of a colour that is taken.
_register_player_overwrites(s, color_choice_arg) ==
    LET color_choice == Lower(color_choice_arg)
        player_id == "player_" \o color_choice
    IN  IF color_choice \notin {"black", "white"}
            THEN Ret(s, "ERROR", "Invalid color.")
        ELSE LET player_data ==
                     _reset_player_for_new_stage(
                         [color_type |-> color_choice],
                         levels[s.current_level_index + 1].start_pos)
                 s1 == [s EXCEPT !.players = Put(@, player_id, player_data)]
                 s2 == IF Cardinality(DOMAIN s1.players) = 1 /\ ~Truthy(s1.start_time)
                       THEN [s1 EXCEPT !.start_time = Now] ELSE s1
             IN  [s |-> s2,
                  result |-> [status |-> "OK", message |-> None,
                              player_id |-> player_id, color_type |-> color_choice,
                              x |-> player_data.x, y |-> player_data.y]]

\* A registration that takes any colour token.
_register_player_any_color(s, color_choice_arg) ==
    LET color_choice == Lower(color_choice_arg)
        player_id == "player_" \o color_choice
    IN  IF player_id \in DOMAIN s.players
            THEN Ret(s, "ERROR", "Color is taken.")
        ELSE LET player_data ==
                     _reset_player_for_new_stage(
                         [color_type |-> color_choice],
                         levels[s.current_level_index + 1].start_pos)
                 s1 == [s EXCEPT !.players = Put(@, player_id, player_data)]
                 s2 == IF Cardinality(DOMAIN s1.players) = 1 /\ ~Truthy(s1.start_time)
                       THEN [s1 EXCEPT !.start_time = Now] ELSE s1
             IN  [s |-> s2,
                  result |-> [status |-> "OK", message |-> None,
                              player_id |-> player_id, color_type |-> color_choice,
                              x |-> player_data.x, y |-> player_data.y]]

_register_player(s, color_choice_arg) ==
    LET color_choice == Lower(color_choice_arg)
        player_id == "player_" \o color_choice
    IN  IF color_choice \notin {"black", "white"}
            THEN Ret(s, "ERROR", "Invalid color.")
        ELSE IF player_id \in DOMAIN s.players
            THEN Ret(s, "ERROR", "Color is taken.")
        ELSE LET player_data ==
                     _reset_player_for_new_stage(
                         [color_type |-> color_choice],
                         levels[s.current_level_index + 1].start_pos)
                 s1 == [s EXCEPT !.players = Put(@, player_id, player_data)]
                 s2 == IF Cardinality(DOMAIN s1.players) = 1 /\ ~Truthy(s1.start_time)
                       THEN [s1 EXCEPT !.start_time = Now] ELSE s1
             IN  [s |-> s2,
                  result |-> [status |-> "OK", message |-> None,
                              player_id |-> player_id, color_type |-> color_choice,
                              x |-> player_data.x, y |-> player_data.y]]

\* A set_player_state that refuses the update once a winner is set.
_set_player_state_guarded(s, player_id, x, y, lives) ==
    IF Truthy(s.stage_winner) \/ Truthy(s.match_winner) THEN Ret(s, "ERROR", None)
    ELSE IF player_id \in DOMAIN s.players
    THEN Ret([s EXCEPT !.players[player_id].x = x,
                       !.players[player_id].y = y,
                       !.players[player_id].lives = lives], "OK", None)
    ELSE Ret(s, "ERROR", "Player not found.")

_set_player_state(s, player_id, x, y, lives) ==
    IF player_id \in DOMAIN s.players
    THEN Ret([s EXCEPT !.players[player_id].x = x,
                       !.players[player_id].y = y,
                       !.players[player_id].lives = lives], "OK", None)
    ELSE Ret(s, "ERROR", "Player not found.")

_get_player_info(s, player_id) ==
    IF player_id \in DOMAIN s.players
    THEN [s |-> s,
          result |-> [status |-> "OK", message |-> None,
                      color_type |-> s.players[player_id].color_type]]
    ELSE Ret(s, "ERROR", "Player not found.")

\* The snapshot of _get_game_state, without the images and the clock reading.
_get_game_state(s) ==
    [status |-> "OK",
     players |-> s.players,
     gems |-> s.gems,
     hazards |-> s.hazards,
     walls |-> s.walls,
     exit_area |-> s.exit_area,
     game_info |-> [current_stage |-> s.current_level_index + 1,
                    total_stages |-> total_stages,
                    scores |-> s.scores,
                    stage_winner |-> s.stage_winner,
                    match_winner |-> s.match_winner,
                    required_gems |-> [black |-> s.black_gems_required,
                                       white |-> s.white_gems_required]]]

\* A collect_gem that turns away a player recorded at the exit.
CollectInc_unless_at_exit(s, player_id, gem_id) ==
    IF Truthy(s.match_winner) \/ Truthy(s.stage_winner)
        THEN Ret(s, "ERROR", None) @@ [next |-> "return"]
    ELSE IF player_id \in DOMAIN s.players /\ gem_id \in DOMAIN s.gems
            /\ s.players[player_id].color_type = s.gems[gem_id].type
            /\ ~s.players[player_id].at_exit
        THEN Ret([s EXCEPT !.players[player_id].gems_collected = @ + 1], "OK", None)
             @@ [next |-> "del"]
    ELSE Ret(s, "ERROR", None) @@ [next |-> "return"]

\* A collect_gem that does not compare the colours.
CollectInc_any_color(s, player_id, gem_id) ==
    IF Truthy(s.match_winner) \/ Truthy(s.stage_winner)
        THEN Ret(s, "ERROR", None) @@ [next |-> "return"]
    ELSE IF player_id \in DOMAIN s.players /\ gem_id \in DOMAIN s.gems
        THEN Ret([s EXCEPT !.players[player_id].gems_collected = @ + 1], "OK", None)
             @@ [next |-> "del"]
    ELSE Ret(s, "ERROR", None) @@ [next |-> "return"]

\* _collect_gem up to and with line 285; next = "del" when line 286 is to run.
CollectInc(s, player_id, gem_id) ==
    IF Truthy(s.match_winner) \/ Truthy(s.stage_winner)
        THEN Ret(s, "ERROR", None) @@ [next |-> "return"]
    ELSE IF player_id \in DOMAIN s.players /\ gem_id \in DOMAIN s.gems
            /\ s.players[player_id].color_type = s.gems[gem_id].type
        THEN Ret([s EXCEPT !.players[player_id].gems_collected = @ + 1], "OK", None)
             @@ [next |-> "del"]
    ELSE Ret(s, "ERROR", None) @@ [next |-> "return"]

\* A removal that leaves the gem in the registry.
CollectDel_keeps_gem(s, gem_id) ==
    IF gem_id \in DOMAIN s.gems
    THEN Ret([s EXCEPT !.collected = @ \cup {gem_id}], "OK", None)
    ELSE Ret(s, "EXC", "KeyError")

\* A removal that counts the required gems again from what is left.
CollectDel_recounts(s, gem_id) ==
    IF gem_id \in DOMAIN s.gems
    THEN LET left == Del(s.gems, gem_id)
         IN  Ret([s EXCEPT !.gems = left, !.collected = @ \cup {gem_id},
                           !.black_gems_required =
                               Cardinality({g \in DOMAIN left : left[g].type = "black"}),
                           !.white_gems_required =
                               Cardinality({g \in DOMAIN left : left[g].type = "white"})],
                 "OK", None)
    ELSE Ret(s, "EXC", "KeyError")

\* _collect_gem, line 286: del self.gems[gem_id]; return OK.  A missing key raises.
CollectDel(s, gem_id) ==
    IF gem_id \in DOMAIN s.gems
    THEN Ret([s EXCEPT !.gems = Del(@, gem_id), !.collected = @ \cup {gem_id}],
             "OK", None)
    ELSE Ret(s, "EXC", "KeyError")

\* A hazard rule that punishes the touch of any hazard, the own colour's too.
_check_hazard_collision_any_hazard(s, player_id, hazard_id) ==
    IF Truthy(s.match_winner) \/ Truthy(s.stage_winner) THEN Ret(s, "ERROR", None)
    ELSE IF player_id \in DOMAIN s.players /\ hazard_id \in DOMAIN s.hazards
        THEN LET s1 == [s EXCEPT !.players[player_id].lives = 0]
                 opponent_id == OpponentOf(s.players[player_id].color_type)
             IN  Ret(_handle_stage_win(s1, opponent_id), "OK", None)
    ELSE Ret(s, "OK", None)

_check_hazard_collision(s, player_id, hazard_id) ==
    IF Truthy(s.match_winner) \/ Truthy(s.stage_winner) THEN Ret(s, "ERROR", None)
    ELSE IF player_id \in DOMAIN s.players /\ hazard_id \in DOMAIN s.hazards
            /\ s.players[player_id].color_type # s.hazards[hazard_id].type
        THEN LET s1 == [s EXCEPT !.players[player_id].lives = 0]
                 opponent_id == OpponentOf(s.players[player_id].color_type)
             IN  Ret(_handle_stage_win(s1, opponent_id), "OK", None)
    ELSE Ret(s, "OK", None)

\* An exit rule that asks for more gems than the required count.
_player_at_exit_strict(s, player_id) ==
    IF Truthy(s.match_winner) \/ Truthy(s.stage_winner)
        THEN Ret(s, "OK", "Stage has already been won.")
    ELSE IF player_id \in DOMAIN s.players
        THEN LET s1 == [s EXCEPT !.players[player_id].at_exit = TRUE]
                 player == s1.players[player_id]
                 required_gems == IF player.color_type = "black"
                                  THEN s1.black_gems_required
                                  ELSE s1.white_gems_required
             IN  Ret(IF player.gems_collected > required_gems
                     THEN _handle_stage_win(s1, player_id) ELSE s1,
                     "OK", "Player at exit processed.")
    ELSE Ret(s, "ERROR", "Player not found.")

_player_at_exit(s, player_id) ==
    IF Truthy(s.match_winner) \/ Truthy(s.stage_winner)
        THEN Ret(s, "OK", "Stage has already been won.")
    ELSE IF player_id \in DOMAIN s.players
        THEN LET s1 == [s EXCEPT !.players[player_id].at_exit = TRUE]
                 player == s1.players[player_id]
                 required_gems == IF player.color_type = "black"
                                  THEN s1.black_gems_required
                                  ELSE s1.white_gems_required
             IN  Ret(IF player.gems_collected >= required_gems
                     THEN _handle_stage_win(s1, player_id) ELSE s1,
                     "OK", "Player at exit processed.")
    ELSE Ret(s, "ERROR", "Player not found.")

----------------------------------------------------------------------------
(* proses_string *)

\* int(): the numerals the clients of this model send; any other token raises
\* ValueError.
IntOf == ("0" :> 0) @@ ("1" :> 1) @@ ("2" :> 2) @@ ("7" :> 7) @@ ("9" :> 9)
IsInt(token) == token \in DOMAIN IntOf

Returned(r) == [s |-> r.s, result |-> r.result, next |-> "return"]

\* Lines 200-213, run with the lock held, up to the return or up to line 286.
CriticalSection(s0, parts) ==
    LET command == Lower(parts[1])
        args == SubSeq(parts, 2, Len(parts))
        s == IF ~Truthy(s0.start_time) /\ Cardinality(DOMAIN s0.players) >= 1
             THEN [s0 EXCEPT !.start_time = Now] ELSE s0
        error == Returned(Ret(s, "ERROR", None))
    IN  IF command = "register_player" THEN
            IF Len(args) > 0 THEN Returned(_register_player(s, args[1])) ELSE error
        ELSE IF command = "set_player_state" THEN
            IF Len(args) = 4 THEN
                IF IsInt(args[2]) /\ IsInt(args[3]) /\ IsInt(args[4])
                THEN Returned(_set_player_state(s, args[1], IntOf[args[2]],
                                                IntOf[args[3]], IntOf[args[4]]))
                ELSE error
            ELSE error
        ELSE IF command = "get_game_state" THEN
            [s |-> s, result |-> _get_game_state(s), next |-> "return"]
        ELSE IF command = "get_player_info" THEN
            IF Len(args) > 0 THEN Returned(_get_player_info(s, args[1])) ELSE error
        ELSE IF command = "collect_gem" THEN
            IF Len(args) = 2 THEN CollectInc(s, args[1], args[2]) ELSE error
        ELSE IF command = "check_hazard_collision" THEN
            IF Len(args) = 2 THEN Returned(_check_hazard_collision(s, args[1], args[2]))
            ELSE error
        ELSE IF command = "player_at_exit" THEN
            IF Len(args) > 0 THEN Returned(_player_at_exit(s, args[1])) ELSE error
        ELSE IF command = "reset_game" THEN
            Returned(Ret(_full_reset(s), "OK", None))
        ELSE Returned(Ret(s, "ERROR", "Unknown command"))

\* The whole of proses_string on a non-empty line, with nothing interleaved.
proses_string(s, parts) ==
    LET r == CriticalSection(s, parts)
    IN  IF r.next = "del" THEN CollectDel(r.s, parts[3])
        ELSE [s |-> r.s, result |-> r.result]

----------------------------------------------------------------------------
(* The request lines the clients of this model send, as token lists *)

PlayerIdArgs == {"player_black", "player_white"}
GemIdArgs == {"black_gem_0", "white_gem_1", "black_gem_2", "white_gem_3"}
HazardIdArgs == {"white_pool_0", "black_pool_0", "black_pool_1"}

Requests ==
    {<<"register_player", c>> : c \in {"black", "WHITE", "red"}}
    \cup {<<"collect_gem", p, g>> : p \in PlayerIdArgs, g \in GemIdArgs}
    \cup {<<"collect_gem", "player_red", "black_gem_0">>,
          <<"collect_gem", "player_black", "red_gem_9">>}
    \cup {<<"check_hazard_collision", p, h>> : p \in PlayerIdArgs, h \in HazardIdArgs}
    \cup {<<"check_hazard_collision", "player_red", "white_pool_0">>,
          <<"check_hazard_collision", "player_black", "red_pool_9">>}
    \cup {<<"player_at_exit", p>> : p \in PlayerIdArgs \cup {"player_red"}}
    \cup {<<"reset_game">>}

----------------------------------------------------------------------------
(* Initial state: PlayerServerProtocol.__init__, and idle connection threads *)

Connections == {"c1", "c2"}

Idle == [pc |-> "recv", req |-> << >>, resp |-> None]

Blank ==
    [players |-> EmptyDict, gems |-> EmptyDict, hazards |-> EmptyDict,
     walls |-> EmptyDict, exit_area |-> EmptyDict,
     scores |-> [player_black |-> 0, player_white |-> 0],
     current_level_index |-> 0, match_winner |-> None, stage_winner |-> None,
     start_time |-> None, next_gem_id |-> 0,
     black_gems_required |-> 0, white_gems_required |-> 0, winner |-> None,
     timers |-> EmptyBag, collected |-> {}]

Init ==
    LET s == _full_reset(Blank)
    IN  /\ players = s.players
        /\ gems = s.gems
        /\ hazards = s.hazards
        /\ walls = s.walls
        /\ exit_area = s.exit_area
        /\ scores = s.scores
        /\ current_level_index = s.current_level_index
        /\ match_winner = s.match_winner
        /\ stage_winner = s.stage_winner
        /\ start_time = s.start_time
        /\ next_gem_id = s.next_gem_id
        /\ black_gems_required = s.black_gems_required
        /\ white_gems_required = s.white_gems_required
        /\ winner = s.winner
        /\ timers = s.timers
        /\ collected = s.collected
        /\ lock = None
        /\ conn = [w \in Connections |-> Idle]
        /\ served = 0

----------------------------------------------------------------------------
(* The timer thread: _load_next_stage, run without the lock *)

TimerMoves(from, to) == (timers (-) SetToBag({from})) (+) SetToBag({to})

\* A callback that does not look at match_winner.
TimerFire_ignores_match_winner ==
    /\ BagIn(Sleeping, timers)
    /\ LET t == Sleeping
           rest == timers (-) SetToBag({t})
       IN  IF current_level_index + 1 < total_stages
               THEN /\ timers' = rest (+) SetToBag({[pc |-> "load",
                                                     level_index |-> current_level_index + 1]})
                    /\ UNCHANGED <<engine, collected>>
           ELSE Becomes([_determine_final_winner(self) EXCEPT !.timers = rest])
    /\ UNCHANGED <<lock, conn, served>>

\* A callback that loads the next index without comparing it to total_stages.
TimerFire_no_range_test ==
    /\ BagIn(Sleeping, timers)
    /\ LET t == Sleeping
           rest == timers (-) SetToBag({t})
       IN  IF Truthy(match_winner)
               THEN timers' = rest /\ UNCHANGED <<engine, collected>>
           ELSE /\ timers' = rest (+) SetToBag({[pc |-> "load",
                                                 level_index |-> current_level_index + 1]})
                /\ UNCHANGED <<engine, collected>>
    /\ UNCHANGED <<lock, conn, served>>

\* Lines 165-166: the tests, and the argument of _load_level.
TimerFire ==
    /\ BagIn(Sleeping, timers)
    /\ LET t == Sleeping
           rest == timers (-) SetToBag({t})
       IN  IF Truthy(match_winner)
               THEN timers' = rest /\ UNCHANGED <<engine, collected>>
           ELSE IF current_level_index + 1 < total_stages
               THEN /\ timers' = rest (+) SetToBag({[pc |-> "load",
                                                     level_index |-> current_level_index + 1]})
                    /\ UNCHANGED <<engine, collected>>
           ELSE Becomes([_determine_final_winner(self) EXCEPT !.timers = rest])
    /\ UNCHANGED <<lock, conn, served>>

\* _load_level, lines 130-137.
TimerLoadClear ==
    \E t \in BagToSet(timers) :
        /\ t.pc = "load"
        /\ IF t.level_index >= Len(levels)
           THEN Becomes([self EXCEPT !.timers = @ (-) SetToBag({t})])
           ELSE Becomes([LoadLevelClear(self, t.level_index) EXCEPT
                            !.timers = TimerMoves(t, [t EXCEPT !.pc = "place"])])
        /\ UNCHANGED <<lock, conn, served>>

\* _load_level, lines 138-148.
TimerLoadPlace ==
    \E t \in BagToSet(timers) :
        /\ t.pc = "place"
        /\ Becomes([LoadLevelPlace(self, t.level_index) EXCEPT
                       !.timers = TimerMoves(t, [t EXCEPT !.pc = "players"])])
        /\ UNCHANGED <<lock, conn, served>>

\* _load_level, lines 149-150; the thread ends.
TimerLoadPlayers ==
    \E t \in BagToSet(timers) :
        /\ t.pc = "players"
        /\ Becomes([LoadLevelPlayers(self, t.level_index) EXCEPT
                       !.timers = @ (-) SetToBag({t})])
        /\ UNCHANGED <<lock, conn, served>>

Timer == TimerFire \/ TimerLoadClear \/ TimerLoadPlace \/ TimerLoadPlayers

----------------------------------------------------------------------------
(* Specification Spec: one connection at a time; the timers run beside it *)

\* ProcessTheClient.run, lines 36-52: a request is read and proses_string runs.
\* An exception ends the connection and nothing is sent.
Serve(parts) ==
    /\ lock = None
    /\ conn["c1"].pc = "recv"
    /\ served < MaxCmds
    /\ served' = served + 1
    /\ IF parts = << >>
       THEN /\ conn' = [conn EXCEPT !["c1"] = [pc |-> "send", req |-> parts, resp |-> "EXC"]]
            /\ UNCHANGED <<engine, timers, collected>>
       ELSE LET r == proses_string(self, parts)
            IN  /\ BagCardinality(r.s.timers) <= MaxTimers
                /\ Becomes(r.s)
                /\ conn' = [conn EXCEPT !["c1"] = [pc |-> "send", req |-> parts,
                                                resp |-> r.result.status]]
    /\ UNCHANGED lock

\* ProcessTheClient.run, lines 53-55: the response is sent (or, after an
\* exception, the connection is closed and the client connects again).
Send(w) ==
    /\ conn[w].pc = "send"
    /\ conn' = [conn EXCEPT ![w] = Idle]
    /\ UNCHANGED <<engine, timers, collected, lock, served>>

Next ==
    \/ \E parts \in Requests : Serve(parts)
    \/ Send("c1")
    \/ Timer

Spec == Init /\ [][Next]_vars

----------------------------------------------------------------------------
(* Specification SpecConc: one thread per connection (server.py, lines 88-92), *)
(* each running proses_string under self._lock; the timers run beside them.  *)

ConcRequests ==
    {<<"register_player", "black">>,
     <<"collect_gem", "player_black", "black_gem_0">>,
     <<"check_hazard_collision", "player_black", "white_pool_0">>,
     <<"get_game_state">>,
     <<"reset_game">>}

\* An entry that does not wait for the lock to be free.
acquire_unguarded(w) == lock' = w

\* "with self._lock:" is entered: the thread blocks until the lock is free.
acquire(w) ==
    /\ lock = None
    /\ lock' = w

\* The with block is left, by a return or by an exception.
release(w) == lock' = None

\* recv(): a request line has arrived on connection w (lines 36-49).
Recv(w, parts) ==
    /\ conn[w].pc = "recv"
    /\ served < MaxConcCmds
    /\ served' = served + 1
    /\ conn' = [conn EXCEPT ![w] = [pc |-> "wait", req |-> parts, resp |-> None]]
    /\ UNCHANGED <<engine, timers, collected, lock>>

\* proses_string, line 199.
Acquire(w) ==
    /\ conn[w].pc = "wait"
    /\ acquire(w)
    /\ conn' = [conn EXCEPT ![w].pc = "locked"]
    /\ UNCHANGED <<engine, timers, collected, served>>

\* proses_string, lines 200-213, to the return or to the removal of line 286.
Run(w) ==
    /\ conn[w].pc = "locked"
    /\ LET r == CriticalSection(self, conn[w].req)
       IN  /\ BagCardinality(r.s.timers) <= MaxTimers
           /\ Becomes(r.s)
           /\ IF r.next = "del"
              THEN /\ conn' = [conn EXCEPT ![w].pc = "del"]
                   /\ UNCHANGED lock
              ELSE /\ conn' = [conn EXCEPT ![w].pc = "send",
                                           ![w].resp = r.result.status]
                   /\ release(w)
    /\ UNCHANGED served

\* _collect_gem, line 286, and the return.
Remove(w) ==
    /\ conn[w].pc = "del"
    /\ LET r == CollectDel(self, conn[w].req[3])
       IN  /\ Becomes(r.s)
           /\ conn' = [conn EXCEPT ![w].pc = "send", ![w].resp = r.result.status]
    /\ release(w)
    /\ UNCHANGED served

NextConc ==
    \/ \E w \in Connections, parts \in ConcRequests : Recv(w, parts)
    \/ \E w \in Connections : Acquire(w)
    \/ \E w \in Connections : Run(w)
    \/ \E w \in Connections : Remove(w)
    \/ \E w \in Connections : Send(w)
    \/ Timer

SpecConc == Init /\ [][NextConc]_vars

----------------------------------------------------------------------------
(* The single-stage engine: PlayerServerProtocol of src/protocol.py, the   *)
(* module server.py imports.  It works on the same fields, with self.winner *)
(* in the place of the stage and match winners; it starts no timers.       *)
(* _place_wall and _place_gem are the same statements in both files for    *)
(* the colours black and white.                                            *)

_initialize_game_elements(s) ==
    LET w == map_width_single
        h == map_height_single
        s0 == [s EXCEPT !.gems = EmptyDict, !.hazards = EmptyDict, !.walls = EmptyDict,
                        !.next_gem_id = 0, !.winner = None,
                        !.black_gems_required = 0, !.white_gems_required = 0]
        s1 == PlaceWalls(s0, << <<0, h - 20, w, 20>>, <<0, 0, 20, h>>,
                                <<w - 20, 0, 20, h>>, <<0, 0, w, 20>>,
                                <<50, 400, w - 100, 20>>, <<150, 300, 100, 20>>,
                                <<w - 250, 300, 100, 20>>, <<50, 200, 150, 20>>,
                                <<w - 200, 200, 150, 20>>, <<250, 100, 140, 20>> >>, 1)
        s2 == [s1 EXCEPT !.hazards =
                  [white_pool_1 |-> [x |-> 100, y |-> 420, type |-> "white",
                                     width |-> 60, height |-> 20],
                   white_pool_2 |-> [x |-> 300, y |-> 380, type |-> "white",
                                     width |-> 60, height |-> 20],
                   black_pool_1 |-> [x |-> w - 160, y |-> 420, type |-> "black",
                                     width |-> 60, height |-> 20],
                   black_pool_2 |-> [x |-> w - 340, y |-> 200, type |-> "black",
                                     width |-> 60, height |-> 20]],
                         !.exit_area = [x |-> 280, y |-> 40, width |-> 80, height |-> 80]]
    IN  PlaceGems(s2, << <<"black", 70, 370>>, <<"black", 200, 270>>,
                         <<"black", 120, 170>>, <<"white", w - 120, 370>>,
                         <<"white", w - 240, 270>>, <<"white", w - 150, 170>> >>, 1)

_register_player_single(s, color_choice_arg) ==
    LET color_choice == Lower(color_choice_arg)
        player_id == "player_" \o color_choice
        initial_x == IF color_choice = "black" THEN 70 ELSE map_width_single - 70 - 64
        initial_y == 400 - 64
    IN  IF color_choice \notin {"black", "white"}
            THEN Ret(s, "ERROR", "Invalid color choice.")
        ELSE IF player_id \in DOMAIN s.players
            THEN Ret(s, "ERROR", "Player color is already taken.")
        ELSE [s |-> [s EXCEPT !.players =
                        Put(@, player_id,
                            [x |-> initial_x, y |-> initial_y, color_type |-> color_choice,
                             gems_collected |-> 0, lives |-> default_player_lives,
                             at_exit |-> FALSE])],
              result |-> [status |-> "OK", message |-> None,
                          player_id |-> player_id, color_type |-> color_choice,
                          x |-> initial_x, y |-> initial_y]]

\* The snapshot of _get_game_state, without the images.
_get_game_state_single(s) ==
    [status |-> "OK",
     players |-> s.players,
     gems |-> s.gems,
     hazards |-> s.hazards,
     walls |-> s.walls,
     exit_area |-> s.exit_area,
     black_gems_required |-> s.black_gems_required,
     white_gems_required |-> s.white_gems_required,
     winner |-> s.winner]

_collect_gem_single(s, player_id, gem_id) ==
    IF Truthy(s.winner) THEN Ret(s, "ERROR", "Game has already ended.")
    ELSE IF player_id \notin DOMAIN s.players \/ gem_id \notin DOMAIN s.gems
        THEN Ret(s, "ERROR", "Player or gem not found.")
    ELSE IF s.players[player_id].color_type = s.gems[gem_id].type
        THEN Ret([s EXCEPT !.players[player_id].gems_collected = @ + 1,
                           !.gems = Del(@, gem_id)],
                 "OK", "Gem collected.")
    ELSE Ret(s, "ERROR", "Wrong gem color for this character.")

_check_hazard_collision_single(s, player_id, hazard_id) ==
    IF Truthy(s.winner) THEN Ret(s, "ERROR", "Game has already ended.")
    ELSE IF player_id \notin DOMAIN s.players \/ hazard_id \notin DOMAIN s.hazards
        THEN Ret(s, "ERROR", "Player or hazard not found.")
    ELSE LET player == s.players[player_id]
             opponent_color == IF player.color_type = "black" THEN "white" ELSE "black"
         IN  IF player.color_type # s.hazards[hazard_id].type
             THEN Ret([s EXCEPT !.players[player_id].lives = 0,
                                !.winner = "player_" \o opponent_color],
                      "OK", "Hazard hit, game over.")
             ELSE Ret(s, "OK", "Safe hazard.")

_check_race_win_condition(s, player_id) ==
    IF Truthy(s.winner) THEN s
    ELSE LET player == s.players[player_id]
             required_gems == IF player.color_type = "black"
                              THEN s.black_gems_required ELSE s.white_gems_required
         IN  IF player.at_exit /\ player.gems_collected >= required_gems
             THEN [s EXCEPT !.winner = player_id]
             ELSE s

_player_at_exit_single(s, player_id) ==
    IF Truthy(s.winner) THEN Ret(s, "ERROR", "Game has already ended.")
    ELSE IF player_id \in DOMAIN s.players
        THEN Ret(_check_race_win_condition(
                     [s EXCEPT !.players[player_id].at_exit = TRUE], player_id),
                 "OK", "Player is at exit.")
    ELSE Ret(s, "ERROR", "Player not found.")

\* proses_string of src/protocol.py on a non-empty line.  reset_game calls
\* self._reset_game(), which is no attribute of the class (the def of line
\* 395 is at module level): AttributeError leaves the with block.
proses_string_single(s, parts) ==
    LET command == Lower(parts[1])
        args == SubSeq(parts, 2, Len(parts))
        usage == Ret(s, "ERROR", "Usage")
    IN  IF command = "register_player" THEN
            IF Len(args) = 1 THEN _register_player_single(s, args[1]) ELSE usage
        ELSE IF command = "set_player_state" THEN
            IF Len(args) = 4 THEN
                IF IsInt(args[2]) /\ IsInt(args[3]) /\ IsInt(args[4])
                THEN _set_player_state(s, args[1], IntOf[args[2]],
                                       IntOf[args[3]], IntOf[args[4]])
                ELSE Ret(s, "ERROR", "Invalid state values")
            ELSE usage
        ELSE IF command = "get_game_state" THEN
            [s |-> s, result |-> _get_game_state_single(s)]
        ELSE IF command = "get_player_info" THEN
            IF Len(args) = 1 THEN _get_player_info(s, args[1]) ELSE usage
        ELSE IF command = "collect_gem" THEN
            IF Len(args) = 2 THEN _collect_gem_single(s, args[1], args[2]) ELSE usage
        ELSE IF command = "check_hazard_collision" THEN
            IF Len(args) = 2 THEN _check_hazard_collision_single(s, args[1], args[2])
            ELSE usage
        ELSE IF command = "player_at_exit" THEN
            IF Len(args) = 1 THEN _player_at_exit_single(s, args[1]) ELSE usage
        ELSE IF command = "reset_game" THEN
            Ret(s, "EXC", "AttributeError")
        ELSE Ret(s, "ERROR", "Unknown command")

----------------------------------------------------------------------------
(* Specification SpecSingle: server.py with the engine it imports, one     *)
(* connection at a time.                                                   *)

SingleRequests ==
    {<<"register_player", c>> : c \in {"black", "WHITE", "red"}}
    \cup {<<"collect_gem", "player_black", g>> :
             g \in {"black_gem_0", "black_gem_1", "black_gem_2", "white_gem_3"}}
    \cup {<<"check_hazard_collision", p, "white_pool_1">> :
             p \in {"player_black", "player_white"}}
    \cup {<<"player_at_exit", "player_black">>,
          <<"set_player_state", "player_black", "7", "9", "2">>,
          <<"get_game_state">>,
          <<"get_player_info", "player_white">>,
          <<"fly">>,
          << >>,
          <<"reset_game">>}

\* PlayerServerProtocol.__init__ of src/protocol.py (lines 61-89).
InitSingle ==
    LET s == _initialize_game_elements(Blank)
    IN  /\ players = EmptyDict
        /\ gems = s.gems
        /\ hazards = s.hazards
        /\ walls = s.walls
        /\ exit_area = s.exit_area
        /\ next_gem_id = s.next_gem_id
        /\ black_gems_required = s.black_gems_required
        /\ white_gems_required = s.white_gems_required
        /\ winner = None
        /\ scores = Blank.scores
        /\ current_level_index = 0
        /\ match_winner = None
        /\ stage_winner = None
        /\ start_time = None
        /\ timers = EmptyBag
        /\ collected = {}
        /\ lock = None
        /\ conn = [w \in Connections |-> Idle]
        /\ served = 0

\* ProcessTheClient.run, lines 36-52.  An exception in proses_string (the
\* IndexError of parts[0] on an empty line, the AttributeError of
\* reset_game) leaves the loop: nothing is sent.
ServeSingle(parts) ==
    /\ conn["c1"].pc = "recv"
    /\ served < MaxCmds
    /\ served' = served + 1
    /\ IF parts = << >>
       THEN /\ conn' = [conn EXCEPT !["c1"] = [pc |-> "send", req |-> parts, resp |-> "EXC"]]
            /\ UNCHANGED <<engine, timers, collected>>
       ELSE LET r == proses_string_single(self, parts)
            IN  /\ Becomes(r.s)
                /\ conn' = [conn EXCEPT !["c1"] = [pc |-> "send", req |-> parts,
                                                resp |-> r.result.status]]
    /\ UNCHANGED lock

NextSingle ==
    \/ \E parts \in SingleRequests : ServeSingle(parts)
    \/ Send("c1")

SpecSingle == InitSingle /\ [][NextSingle]_vars

----------------------------------------------------------------------------
(* Specification SpecRecv: the read loop of ProcessTheClient.run, chunk by *)
(* chunk, in front of the engine server.py imports.  A chunk is a list of  *)
(* whole tokens; conn[w].req is data_received_buffer while pc = "read".    *)
(* pc = "sendclosed": the response of a request whose peer has closed is   *)
(* about to be sent; the next recv returns b"" and the handler ends.       *)

RecvChunks ==
    {<<"register_player">>, <<"black">>, <<"register_player", "black">>,
     <<"get_game_state">>,
     <<"check_hazard_collision", "player_black", "white_pool_1">>}

\* Lines 49-52: strip, proses_string, the response to send.
Process(w, buffer, pc) ==
    IF buffer = << >>
    THEN /\ conn' = [conn EXCEPT ![w] = [pc |-> pc, req |-> buffer, resp |-> "EXC"]]
         /\ UNCHANGED <<engine, timers, collected>>
    ELSE LET r == proses_string_single(self, buffer)
         IN  /\ Becomes(r.s)
             /\ conn' = [conn EXCEPT ![w] = [pc |-> pc, req |-> buffer,
                                            resp |-> r.result.status]]

\* Lines 39-42: a chunk without the delimiter is appended, the loop reads on.
RecvPartial(w, chunk) ==
    /\ conn[w].pc \in {"recv", "read"}
    /\ conn[w].pc = "recv" => served < MaxCmds
    /\ Len(conn[w].req) + Len(chunk) <= MaxBufTokens
    /\ conn' = [conn EXCEPT ![w] = [pc |-> "read", req |-> conn[w].req \o chunk,
                                   resp |-> None]]
    /\ served' = IF conn[w].pc = "recv" THEN served + 1 ELSE served
    /\ UNCHANGED <<engine, timers, collected, lock>>

\* Lines 39-44 and 49-52: the chunk that holds the delimiter ends the
\* reading; the line is processed.
RecvLast(w, chunk) ==
    /\ conn[w].pc \in {"recv", "read"}
    /\ conn[w].pc = "recv" => served < MaxCmds
    /\ Len(conn[w].req) + Len(chunk) <= MaxBufTokens
    /\ served' = IF conn[w].pc = "recv" THEN served + 1 ELSE served
    /\ Process(w, conn[w].req \o chunk, "send")
    /\ UNCHANGED lock

\* Lines 39-41 and 46-52: recv returns b"" while the buffer holds bytes (the
\* peer closed in the middle of a request).  The inner loop is left, the
\* buffer is not empty, so it is processed like a complete line.
RecvEof(w) ==
    /\ conn[w].pc = "read"
    /\ Process(w, conn[w].req, "sendclosed")
    /\ UNCHANGED <<lock, served>>

\* Lines 53-55, then recv returns b"" with an empty buffer (line 46): the
\* handler ends and the connection is closed (line 61).
SendClosed(w) ==
    /\ conn[w].pc = "sendclosed"
    /\ conn' = [conn EXCEPT ![w] = Idle]
    /\ UNCHANGED <<engine, timers, collected, lock, served>>

NextRecv ==
    \/ \E chunk \in RecvChunks : RecvPartial("c1", chunk)
    \/ \E chunk \in RecvChunks \cup {<< >>} : RecvLast("c1", chunk)
    \/ RecvEof("c1")
    \/ Send("c1")
    \/ SendClosed("c1")

SpecRecv == InitSingle /\ [][NextRecv]_vars

----------------------------------------------------------------------------
(* Specification SpecLines: one client of the multi-stage engine that      *)
(* sends lines of every shape: empty, unknown names, too few and too many  *)
(* arguments, tokens that are no integers, ids that do not exist.  None of *)
(* these lines decides a stage, so no timer thread exists.                 *)

LineRequests ==
    {<< >>, <<"fly">>, <<"fly", "player_black">>,
     <<"register_player">>, <<"register_player", "black">>,
     <<"register_player", "black", "extra">>,
     <<"set_player_state", "player_black", "7", "9", "2">>,
     <<"set_player_state", "player_black", "7", "nine", "2">>,
     <<"set_player_state", "player_black", "7">>,
     <<"set_player_state", "player_black", "7", "9", "2", "0">>,
     <<"set_player_state", "player_red", "7", "9", "2">>,
     <<"get_game_state">>, <<"get_game_state", "extra">>,
     <<"get_player_info">>, <<"get_player_info", "player_black">>,
     <<"get_player_info", "player_black", "extra">>,
     <<"get_player_info", "player_red">>,
     <<"collect_gem", "player_black">>,
     <<"collect_gem", "player_black", "black_gem_0", "extra">>,
     <<"check_hazard_collision", "player_black">>,
     <<"check_hazard_collision", "player_black", "white_pool_0", "extra">>,
     <<"player_at_exit">>, <<"player_at_exit", "player_black", "extra">>,
     <<"player_at_exit", "player_red">>,
     <<"reset_game">>, <<"reset_game", "extra">>}

NextLines ==
    \/ \E parts \in LineRequests : Serve(parts)
    \/ Send("c1")

SpecLines == Init /\ [][NextLines]_vars

----------------------------------------------------------------------------
(* Specification SpecMatch: one connection playing whole matches by hazard *)
(* touches (each stage but the second has a white pool, the second a black *)
(* one), with resets; the timers run beside it.                            *)

MatchRequests ==
    {<<"register_player", "black">>,
     <<"register_player", "white">>,
     <<"check_hazard_collision", "player_black", "white_pool_0">>,
     <<"check_hazard_collision", "player_white", "black_pool_0">>,
     <<"reset_game">>}

\* ProcessTheClient.run, lines 36-52, as Serve.
ServeMatch(parts) ==
    /\ conn["c1"].pc = "recv"
    /\ served < MaxMatchCmds
    /\ served' = served + 1
    /\ LET r == proses_string(self, parts)
       IN  /\ BagCardinality(r.s.timers) <= MaxTimers
           /\ Becomes(r.s)
           /\ conn' = [conn EXCEPT !["c1"] = [pc |-> "send", req |-> parts,
                                           resp |-> r.result.status]]
    /\ UNCHANGED lock

NextMatch ==
    \/ \E parts \in MatchRequests : ServeMatch(parts)
    \/ Send("c1")
    \/ Timer

SpecMatch == Init /\ [][NextMatch]_vars

----------------------------------------------------------------------------
(* Specification SpecStage: one client that plays with every command of    *)
(* the protocol but reset_game, well formed, and the timer threads its     *)
(* stage wins start.                                                       *)

StageRequests ==
    {<<"register_player", "black">>, <<"register_player", "white">>,
     <<"set_player_state", "player_black", "7", "9", "0">>,
     <<"get_game_state">>,
     <<"get_player_info", "player_black">>,
     <<"collect_gem", "player_black", "black_gem_0">>,
     <<"collect_gem", "player_black", "black_gem_2">>,
     <<"check_hazard_collision", "player_white", "white_pool_0">>,
     <<"check_hazard_collision", "player_black", "white_pool_0">>,
     <<"player_at_exit", "player_black">>}

NextStage ==
    \/ \E parts \in StageRequests : Serve(parts)
    \/ Send("c1")
    \/ Timer

SpecStage == Init /\ [][NextStage]_vars

----------------------------------------------------------------------------
(* Specification SpecLive: a match that no client resets, with timer       *)
(* threads that run once started: a threading.Timer thread that is due    *)
(* fires, and one that has fired enters _load_level, eventually.          *)

LiveRequests == MatchRequests \ {<<"reset_game">>}

NextLive ==
    \/ \E parts \in LiveRequests : ServeMatch(parts)
    \/ Send("c1")
    \/ Timer

SpecLive ==
    Init /\ [][NextLive]_vars /\ WF_vars(TimerFire) /\ WF_vars(TimerLoadClear)

----------------------------------------------------------------------------
(* Vocabulary of the properties *)

\* This step ends the processing of a request of connection w: its response
\* (conn'[w].resp) to the request conn'[w].req is ready.
Answered(w) == conn[w].pc # "send" /\ conn'[w].pc = "send"

\* A step of a timer thread: no connection thread moves.
TimerStep == conn' = conn /\ timers' # timers

\* The command name and the arguments of a request line, as proses_string
\* splits it (no name for an empty line).
CommandOf(req) == IF Len(req) = 0 THEN "" ELSE Lower(req[1])
Arg(req, i) == IF Len(req) > i THEN req[i + 1] ELSE ""

Decided == Truthy(stage_winner) \/ Truthy(match_winner)

Stage1 == _load_level(Blank, 0)

\* The number of collectibles of a colour in a stage's definition.
GemsOfColor(level_data, color) ==
    Cardinality({k \in 1..Len(level_data.gems) : level_data.gems[k][1] = color})

\* A timer thread is between the clearing (line 136) and the placing (line
\* 146) of its _load_level.
LoadInProgress == \E t \in BagToSet(timers) : t.pc = "place"

----------------------------------------------------------------------------
(* C1: the deferred callback changes the match state only under the lock    *)
(* of the commands: no step of its stage load falls inside the critical     *)
(* section of a command, that is, while a connection thread holds the lock. *)
C1_CallbackUnderLock ==
    [][(TimerStep /\ engine' # engine) => lock = None]_vars

C3_ResetState ==
    [][\A w \in Connections :
          (Answered(w) /\ CommandOf(conn'[w].req) = "reset_game")
          => /\ conn'[w].resp = "OK"
             /\ current_level_index' = 0
             /\ players' = EmptyDict
             /\ scores' = [player_black |-> 0, player_white |-> 0]
             /\ stage_winner' = None
             /\ match_winner' = None
             /\ gems' = Stage1.gems
             /\ hazards' = Stage1.hazards
             /\ walls' = Stage1.walls
             /\ exit_area' = Stage1.exit_area]_vars

\* A reset has just been answered, and a stage had been won before it (its
\* timer thread is still alive).
C3_Witness ==
    /\ conn["c1"].pc = "send"
    /\ conn["c1"].req = <<"reset_game">>
    /\ conn["c1"].resp = "OK"
    /\ timers # EmptyBag
    /\ players = EmptyDict

(* C4: a reset_game cancels a pending stage transition: while no stage has *)
(* been won in the match (both scores 0) the match is at stage 1.          *)
C4_ResetCancelsTransition ==
    (scores["player_black"] = 0 /\ scores["player_white"] = 0)
    => current_level_index = 0

(* C5: once a stage winner or a match winner is set, collect_gem,          *)
(* check_hazard_collision and player_at_exit return ERROR and change       *)
(* nothing of the match state.                                             *)
C5_DecidedRejects ==
    [][\A w \in Connections :
          (/\ Answered(w)
           /\ Decided
           /\ CommandOf(conn'[w].req) \in {"collect_gem", "check_hazard_collision",
                                         "player_at_exit"})
          => /\ conn'[w].resp = "ERROR"
             /\ engine' = engine
             /\ timers' = timers]_vars

(* C6: with no winner set, check_hazard_collision by a registered player   *)
(* on an existing hazard of the other colour sets the player's lives to 0, *)
(* adds exactly 1 to the other colour's score, leaves the player's own     *)
(* score alone and makes the other colour's player id the stage winner.    *)
C6_HazardRule ==
    [][\A w \in Connections :
          (/\ Answered(w)
           /\ ~Decided
           /\ CommandOf(conn'[w].req) = "check_hazard_collision"
           /\ Len(conn'[w].req) = 3
           /\ conn'[w].req[2] \in DOMAIN players
           /\ conn'[w].req[3] \in DOMAIN hazards
           /\ players[conn'[w].req[2]].color_type # hazards[conn'[w].req[3]].type)
          => LET p == conn'[w].req[2]
                 o == IF players[p].color_type = "black" THEN "player_white"
                      ELSE "player_black"
             IN  /\ conn'[w].resp = "OK"
                 /\ players'[p].lives = 0
                 /\ o # p
                 /\ scores'[o] = scores[o] + 1
                 /\ scores'[p] = scores[p]
                 /\ stage_winner' = o]_vars

\* Black has just touched a white hazard: white has the stage.
C6_Witness ==
    /\ conn["c1"].pc = "send"
    /\ CommandOf(conn["c1"].req) = "check_hazard_collision"
    /\ Arg(conn["c1"].req, 1) = "player_black"
    /\ conn["c1"].resp = "OK"
    /\ "player_black" \in DOMAIN players
    /\ players["player_black"].lives = 0
    /\ stage_winner = "player_white"
    /\ scores["player_white"] = 1

(* C7: a successful collect_gem by a player of the gem's colour removes    *)
(* that gem from the registry, adds exactly 1 to the collector's           *)
(* gems_collected and leaves the other player's counter alone; the gem     *)
(* stays absent for the rest of the stage, and a second collect_gem for    *)
(* its id in the same stage returns ERROR and changes nothing.             *)
C7_CollectOnce ==
    [][/\ collected' \cap DOMAIN gems' = {}
       /\ \A w \in Connections :
            (Answered(w) /\ CommandOf(conn'[w].req) = "collect_gem"
                         /\ Len(conn'[w].req) = 3)
            => LET p == conn'[w].req[2]
                   g == conn'[w].req[3]
               IN  /\ (/\ ~Decided
                       /\ p \in DOMAIN players
                       /\ g \in DOMAIN gems
                       /\ players[p].color_type = gems[g].type)
                      => /\ conn'[w].resp = "OK"
                         /\ DOMAIN gems' = DOMAIN gems \ {g}
                         /\ players'[p].gems_collected = players[p].gems_collected + 1
                         /\ \A q \in DOMAIN players \ {p} :
                                players'[q].gems_collected = players[q].gems_collected
                   /\ g \in collected
                      => /\ conn'[w].resp = "ERROR"
                         /\ engine' = engine]_vars

\* Black asks a second time for a gem it has collected in this stage.
C7_Witness ==
    /\ conn["c1"].pc = "send"
    /\ conn["c1"].req = <<"collect_gem", "player_black", "black_gem_0">>
    /\ conn["c1"].resp = "ERROR"
    /\ "black_gem_0" \in collected
    /\ ~Decided
    /\ "player_black" \in DOMAIN players
    /\ players["player_black"].gems_collected = 1

(* C8: when two collect_gem commands for the same gem id race on two       *)
(* connections, the one that enters first returns OK and removes the gem,  *)
(* and the other returns ERROR and changes nothing: one OK, one removal,   *)
(* one increment.                                                          *)
C8_RaceOneWinner ==
    [][\A w \in Connections : \A v \in Connections \ {w} :
          /\ (/\ conn[w].pc = "del" /\ Answered(w)
               /\ conn[v].pc = "wait" /\ conn[v].req = conn[w].req)
              => /\ conn'[w].resp = "OK"
                 /\ conn[w].req[3] \in DOMAIN gems
                 /\ DOMAIN gems' = DOMAIN gems \ {conn[w].req[3]}
                 /\ players' = players
          /\ (/\ Answered(w) /\ CommandOf(conn'[w].req) = "collect_gem"
               /\ conn[v].pc = "send" /\ conn[v].req = conn[w].req
               /\ conn[v].resp = "OK" /\ Arg(conn[w].req, 2) \in collected)
              => /\ conn'[w].resp = "ERROR"
                 /\ engine' = engine]_vars

(* C9: with no winner set, player_at_exit by a registered player whose     *)
(* gems_collected is at least the required count of the player's colour    *)
(* makes that player the stage winner and adds exactly 1 to its score.     *)
C9_ExitWins ==
    [][\A w \in Connections :
          (/\ Answered(w)
           /\ ~Decided
           /\ CommandOf(conn'[w].req) = "player_at_exit"
           /\ Arg(conn'[w].req, 1) \in DOMAIN players
           /\ LET p == Arg(conn'[w].req, 1)
              IN  players[p].gems_collected >=
                      (IF players[p].color_type = "black" THEN black_gems_required
                       ELSE white_gems_required))
          => LET p == Arg(conn'[w].req, 1)
             IN  /\ conn'[w].resp = "OK"
                 /\ stage_winner' = p
                 /\ scores'[p] = scores[p] + 1]_vars

\* Black has collected its gems of the stage and has just taken the exit.
C9_Witness ==
    /\ conn["c1"].pc = "send"
    /\ conn["c1"].req = <<"player_at_exit", "player_black">>
    /\ conn["c1"].resp = "OK"
    /\ stage_winner = "player_black"
    /\ scores["player_black"] = 1
    /\ black_gems_required > 0
    /\ "player_black" \in DOMAIN players
    /\ players["player_black"].gems_collected = black_gems_required

(* C10: player_at_exit by a registered player with fewer gems than         *)
(* required records at_exit = true and leaves stage_winner unset and the   *)
(* scores unchanged; a player recorded at the exit still collects gems,    *)
(* and its later player_at_exit with the requirement met wins the stage.   *)
C10_ShortExitKeepsPlaying ==
    [][\A w \in Connections :
          (Answered(w) /\ ~Decided /\ Arg(conn'[w].req, 1) \in DOMAIN players)
          => LET p == Arg(conn'[w].req, 1)
                 g == Arg(conn'[w].req, 2)
                 required == IF players[p].color_type = "black"
                             THEN black_gems_required ELSE white_gems_required
                 cmd == CommandOf(conn'[w].req)
             IN  /\ (cmd = "player_at_exit" /\ players[p].gems_collected < required)
                    => /\ conn'[w].resp = "OK"
                       /\ players'[p].at_exit = TRUE
                       /\ stage_winner' = None
                       /\ match_winner' = None
                       /\ scores' = scores
                 /\ (/\ cmd = "collect_gem" /\ Len(conn'[w].req) = 3
                     /\ players[p].at_exit = TRUE
                     /\ g \in DOMAIN gems
                     /\ gems[g].type = players[p].color_type)
                    => /\ conn'[w].resp = "OK"
                       /\ players'[p].gems_collected = players[p].gems_collected + 1
                       /\ players'[p].at_exit = TRUE
                 /\ (/\ cmd = "player_at_exit" /\ players[p].at_exit = TRUE
                     /\ players[p].gems_collected >= required)
                    => stage_winner' = p]_vars

\* Black went to the exit too early, and has now collected the last gem it
\* needs: the stage is still open.
C10_Witness ==
    /\ conn["c1"].pc = "send"
    /\ CommandOf(conn["c1"].req) = "collect_gem"
    /\ Arg(conn["c1"].req, 1) = "player_black"
    /\ conn["c1"].resp = "OK"
    /\ "player_black" \in DOMAIN players
    /\ players["player_black"].at_exit = TRUE
    /\ black_gems_required > 0
    /\ players["player_black"].gems_collected = black_gems_required
    /\ stage_winner = None

(* C11: with total_stages = 5, the stage win that brings a colour's score  *)
(* to the majority (3) sets match_winner to that colour's player id in the *)
(* same command, and that win starts no stage-transition timer.            *)
C11_MajorityDecides ==
    [][\A w \in Connections : \A p \in {"player_black", "player_white"} :
          (Answered(w) /\ scores'[p] = scores[p] + 1 /\ scores'[p] = 3)
          => /\ match_winner' = p
             /\ stage_winner' = p
             /\ timers' = timers]_vars

\* White has just taken its third stage, by a hazard touch of black in
\* stage 3: the match is white's and no timer is alive.
C11_Witness ==
    /\ conn["c1"].pc = "send"
    /\ CommandOf(conn["c1"].req) = "check_hazard_collision"
    /\ scores["player_white"] = 3
    /\ current_level_index = 2
    /\ match_winner = "player_white"
    /\ timers = EmptyBag

(* C12: once match_winner is set, and as long as no reset_game is served,  *)
(* match_winner, the scores and the current stage index do not change,     *)
(* whatever commands are served and whatever timers fire.                  *)
C12_MatchDecidedTerminal ==
    [][(/\ Truthy(match_winner)
        /\ \A w \in Connections :
               ~(Answered(w) /\ CommandOf(conn'[w].req) = "reset_game"))
       => /\ match_winner' = match_winner
          /\ scores' = scores
          /\ current_level_index' = current_level_index]_vars

(* C13: register_player for a colour that is registered, and               *)
(* register_player with a token that is neither black nor white, return    *)
(* ERROR and leave the player registry and the rest of the state as they   *)
(* were.                                                                   *)
C13_RegisterRejects ==
    [][\A w \in Connections :
          (/\ Answered(w)
           /\ CommandOf(conn'[w].req) = "register_player"
           /\ Len(conn'[w].req) = 2
           /\ LET c == Lower(conn'[w].req[2])
              IN  \/ c \notin {"black", "white"}
                  \/ c = "black" /\ "player_black" \in DOMAIN players
                  \/ c = "white" /\ "player_white" \in DOMAIN players)
          => /\ conn'[w].resp = "ERROR"
             /\ engine' = engine
             /\ timers' = timers]_vars

\* Black is registered, has played (its position is no longer a fresh
\* registration's), and a second registration of black has been refused.
C13_Witness ==
    /\ conn["c1"].pc = "send"
    /\ conn["c1"].req = <<"register_player", "black">>
    /\ conn["c1"].resp = "ERROR"
    /\ "player_black" \in DOMAIN players
    /\ players["player_black"].gems_collected = 1

(* C14: the player registry holds at most two players, its keys are among  *)
(* player_black and player_white, and the player stored under player_<c>   *)
(* has colour c.                                                           *)
C14_RegistryShape ==
    /\ Cardinality(DOMAIN players) <= 2
    /\ DOMAIN players \subseteq {"player_black", "player_white"}
    /\ "player_black" \in DOMAIN players
          => players["player_black"].color_type = "black"
    /\ "player_white" \in DOMAIN players
          => players["player_white"].color_type = "white"

\* Both colours are registered and a third registration has been refused.
C14_Witness ==
    /\ DOMAIN players = {"player_black", "player_white"}
    /\ conn["c1"].pc = "send"
    /\ conn["c1"].req = <<"register_player", "red">>
    /\ conn["c1"].resp = "ERROR"

(* C15: once a stage is loaded (by reset or by a stage transition), the    *)
(* required gem counts of both colours are the numbers of collectibles of  *)
(* those colours in the definition of the current stage, whatever was      *)
(* loaded before.                                                          *)
C15_RequiredGemsOfStage ==
    ~LoadInProgress
    => /\ black_gems_required = GemsOfColor(levels[current_level_index + 1], "black")
       /\ white_gems_required = GemsOfColor(levels[current_level_index + 1], "white")

(* C16: reset_game is acknowledged with status OK in every reachable       *)
(* state, by the single-stage engine as by the multi-stage one: it never   *)
(* raises and never returns ERROR.                                         *)
C16_ResetNeverFails ==
    [][\A w \in Connections :
          (Answered(w) /\ CommandOf(conn'[w].req) = "reset_game")
          => conn'[w].resp = "OK"]_vars

(* C17: every request a connection receives, the empty line, an unknown    *)
(* command and reset_game included, is answered with one JSON response     *)
(* (status OK or ERROR); none ends the handling loop without a response.   *)
C17_EveryRequestAnswered ==
    [][\A w \in Connections :
          Answered(w) => conn'[w].resp \in {"OK", "ERROR"}]_vars

\* The number of arguments each command takes.
Arity ==
    [register_player |-> 1, set_player_state |-> 4, get_game_state |-> 0,
     get_player_info |-> 1, collect_gem |-> 2, check_hazard_collision |-> 2,
     player_at_exit |-> 1, reset_game |-> 0]

\* A non-empty line with an unknown name, a wrong number of arguments, or a
\* set_player_state whose x, y or lives is no integer.
Malformed(req) ==
    /\ Len(req) > 0
    /\ \/ CommandOf(req) \notin DOMAIN Arity
       \/ /\ CommandOf(req) \in DOMAIN Arity
          /\ Len(req) - 1 # Arity[CommandOf(req)]
       \/ /\ CommandOf(req) = "set_player_state"
          /\ Len(req) = 5
          /\ \E i \in 3..5 : ~IsInt(req[i])

(* C18: a command with an unknown name, with too few or too many arguments *)
(* (whatever the command), or with an x, y or lives that is no integer, is *)
(* answered ERROR and leaves the whole match state as it was.              *)
C18_MalformedRejected ==
    [][\A w \in Connections :
          (Answered(w) /\ Malformed(conn'[w].req))
          => /\ conn'[w].resp = "ERROR"
             /\ engine' = engine
             /\ timers' = timers]_vars

\* A line with the right number of arguments that names a player, a
\* collectible or a hazard that is in no registry.
UnknownId(req) ==
    /\ CommandOf(req) \in DOMAIN Arity
    /\ Len(req) - 1 = Arity[CommandOf(req)]
    /\ \/ /\ CommandOf(req) \in {"set_player_state", "get_player_info", "collect_gem",
                                  "check_hazard_collision", "player_at_exit"}
          /\ req[2] \notin DOMAIN players
       \/ CommandOf(req) = "collect_gem" /\ req[3] \notin DOMAIN gems
       \/ CommandOf(req) = "check_hazard_collision" /\ req[3] \notin DOMAIN hazards

(* C19: set_player_state, get_player_info, collect_gem,                    *)
(* check_hazard_collision and player_at_exit on a player, collectible or   *)
(* hazard id that does not exist are answered ERROR and leave the state as *)
(* it was; check_hazard_collision with an unknown player or hazard id in   *)
(* particular.                                                             *)
C19_UnknownIdRejected ==
    [][\A w \in Connections :
          (Answered(w) /\ UnknownId(conn'[w].req))
          => /\ conn'[w].resp = "ERROR"
             /\ engine' = engine
             /\ timers' = timers]_vars

(* C20: collect_gem by a registered player on a gem of the other colour is *)
(* answered ERROR and changes nothing: the gem stays in the registry with  *)
(* its colour and no player's gems_collected changes; and a gem that is in *)
(* the registry of an undecided stage, a refused one included, is          *)
(* collected when the player of its own colour asks for it.                *)
C20_WrongColourRefused ==
    [][\A w \in Connections :
          (/\ Answered(w)
           /\ CommandOf(conn'[w].req) = "collect_gem"
           /\ Len(conn'[w].req) = 3
           /\ conn'[w].req[2] \in DOMAIN players
           /\ conn'[w].req[3] \in DOMAIN gems)
          => LET p == conn'[w].req[2]
                 g == conn'[w].req[3]
             IN  IF players[p].color_type # gems[g].type
                 THEN /\ conn'[w].resp = "ERROR"
                      /\ g \in DOMAIN gems' /\ gems'[g] = gems[g]
                      /\ \A q \in DOMAIN players :
                            /\ q \in DOMAIN players'
                            /\ players'[q].gems_collected = players[q].gems_collected
                      /\ engine' = engine
                      /\ timers' = timers
                 ELSE ~Decided => /\ conn'[w].resp = "OK"
                                  /\ g \notin DOMAIN gems']_vars

\* Both colours are registered, black has just been refused the white gem
\* white_gem_1, and the gem is in the registry for white to collect.
C20_Witness ==
    /\ conn["c1"].pc = "send"
    /\ conn["c1"].req = <<"collect_gem", "player_black", "white_gem_1">>
    /\ conn["c1"].resp = "ERROR"
    /\ ~Decided
    /\ DOMAIN players = {"player_black", "player_white"}
    /\ "white_gem_1" \in DOMAIN gems
    /\ gems["white_gem_1"].type = "white"
    /\ players["player_black"].gems_collected = 0

(* C21: in every reachable state every registered player's lives is 0 or 1 *)
(* and its gems_collected is a non-negative integer, whatever integers the *)
(* clients pass to set_player_state.                                       *)
C21_PlayerFieldRanges ==
    \A p \in DOMAIN players :
        /\ players[p].lives \in {0, 1}
        /\ players[p].gems_collected \in Nat

C23_PartialRequestDropped ==
    [][\A w \in Connections :
          (conn[w].pc = "read" /\ conn'[w].pc = "sendclosed")
          => /\ engine' = engine
             /\ timers' = timers]_vars

\* A timer thread takes its first step into _load_level in this step: it
\* assigns the stage index and clears the registries (lines 133-137).
LoadStarts ==
    /\ TimerStep
    /\ \E t \in BagToSet(timers) :
          /\ t.pc = "load"
          /\ t.level_index < total_stages
          /\ CopiesIn(t, timers') < CopiesIn(t, timers)

(* C24: a stage win that does not decide the match schedules exactly one   *)
(* deferred callback; and when a callback that found no match winner loads *)
(* its stage, the stage index goes up by exactly 1, stage_winner is        *)
(* cleared and the scores stay as they are.                                *)
C24_WinSchedulesOneAdvance ==
    [][/\ \A w \in Connections :
            (/\ Answered(w)
             /\ ~Truthy(stage_winner) /\ Truthy(stage_winner')
             /\ ~Truthy(match_winner'))
            => timers' = timers (+) SetToBag({Sleeping})
       /\ LoadStarts
            => /\ current_level_index' = current_level_index + 1
               /\ stage_winner' = None
               /\ scores' = scores]_vars

\* A deferred callback fires in this step: its thread leaves the sleep and
\* runs the tests of _load_next_stage.
CallbackFires ==
    /\ TimerStep
    /\ CopiesIn(Sleeping, timers') < CopiesIn(Sleeping, timers)

C26_FinalStageDecides ==
    [][\A w \in Connections :
          (/\ Answered(w)
           /\ current_level_index + 1 = total_stages
           /\ ~Truthy(stage_winner) /\ Truthy(stage_winner'))
          => /\ Truthy(match_winner')
             /\ timers' = timers]_vars

\* A stage win on stage 5 has just decided the match for a winner whose
\* score is below the majority.
C26_Witness ==
    /\ conn["c1"].pc = "send"
    /\ CommandOf(conn["c1"].req) = "check_hazard_collision"
    /\ conn["c1"].resp = "OK"
    /\ current_level_index + 1 = total_stages
    /\ Truthy(stage_winner)
    /\ Truthy(match_winner)
    /\ scores[stage_winner] < (total_stages \div 2) + 1

(* C27: with timer threads that are scheduled fairly and no reset_game,    *)
(* every stage win that leaves the match open is eventually followed by    *)
(* the load of the next stage: stage_winner set with match_winner unset is *)
(* never permanent.                                                        *)
C27_StageWonIsTransient ==
    (Truthy(stage_winner) /\ ~Truthy(match_winner))
        ~> (~Truthy(stage_winner) \/ Truthy(match_winner))

\* White has won stage 1, the callback has loaded stage 2 completely, and
\* the match is open.
C27_Witness ==
    /\ current_level_index = 1
    /\ scores = [player_black |-> 0, player_white |-> 1]
    /\ ~Truthy(stage_winner)
    /\ ~Truthy(match_winner)
    /\ timers = EmptyBag
    /\ DOMAIN gems # {}

\* The timer thread t ends its _load_level in this step (lines 149-150).
LoadEnds(t) ==
    /\ TimerStep
    /\ t.pc = "players"
    /\ CopiesIn(t, timers') < CopiesIn(t, timers)

Loaded(level_index) == LoadLevelPlace(LoadLevelClear(Blank, level_index), level_index)

\* The timer thread t has placed the content of its stage in this step
\* (lines 138-148).
LoadPlaces(t) ==
    /\ TimerStep
    /\ t.pc = "place"
    /\ CopiesIn(t, timers') < CopiesIn(t, timers)

(* C29: after a stage load the registry holds exactly the loaded stage's   *)
(* content and nothing of the stage before: the four boundary walls and    *)
(* the stage's platform walls, the stage's hazards, the stage's            *)
(* collectibles and the stage's exit rectangle.                            *)
C29_LoadReplacesContent ==
    [][\A t \in BagToSet(timers) :
          LoadPlaces(t)
          => LET level_data == levels[t.level_index + 1]
             IN  /\ Cardinality(DOMAIN walls') = 4 + Len(level_data.walls)
                 /\ Cardinality(DOMAIN hazards') = Len(level_data.hazards)
                 /\ Cardinality(DOMAIN gems') = Len(level_data.gems)
                 /\ walls' = Loaded(t.level_index).walls
                 /\ hazards' = Loaded(t.level_index).hazards
                 /\ gems' = Loaded(t.level_index).gems
                 /\ exit_area' = Loaded(t.level_index).exit_area]_vars

(* C30: between two stage loads no client command changes the required    *)
(* gem counts, the hazards, the walls or the exit zone: register_player,   *)
(* set_player_state, collect_gem, check_hazard_collision, player_at_exit   *)
(* and the two get commands leave all four as they are.                    *)
C30_CommandsKeepStage ==
    [][\A w \in Connections :
          (/\ Answered(w)
           /\ CommandOf(conn'[w].req) \in
                {"register_player", "set_player_state", "collect_gem",
                 "check_hazard_collision", "player_at_exit",
                 "get_game_state", "get_player_info"})
          => /\ black_gems_required' = black_gems_required
             /\ white_gems_required' = white_gems_required
             /\ hazards' = hazards
             /\ walls' = walls
             /\ exit_area' = exit_area]_vars

\* Black has collected both of its gems of stage 1 and reached the exit:
\* the stage is won and the required counts are still 2 and 2.
C30_Witness ==
    /\ conn["c1"].pc = "send"
    /\ conn["c1"].req = <<"player_at_exit", "player_black">>
    /\ conn["c1"].resp = "OK"
    /\ current_level_index = 0
    /\ stage_winner = "player_black"
    /\ players["player_black"].gems_collected = 2
    /\ black_gems_required = 2
    /\ white_gems_required = 2
    /\ Cardinality(DOMAIN gems) = 2
    /\ hazards = Stage1.hazards
    /\ walls = Stage1.walls

\* The number of collectibles of a colour that are in the registry.
GemsLeft(color) == Cardinality({g \in DOMAIN gems : gems[g].type = color})

\* required_gems of a colour.
RequiredGems(color) ==
    IF color = "black" THEN black_gems_required ELSE white_gems_required

(* C31: in every reachable state, for every registered player of colour c, *)
(* gems_collected plus the number of collectibles of colour c still in the *)
(* registry is the required count of c, so gems_collected never exceeds    *)
(* it; and a gem collected in a stage is not in the registry again in that *)
(* stage.                                                                  *)
C31_GemConservation ==
    /\ \A p \in DOMAIN players :
          LET c == players[p].color_type
          IN  /\ players[p].gems_collected + GemsLeft(c) = RequiredGems(c)
              /\ players[p].gems_collected <= RequiredGems(c)
    /\ collected \cap DOMAIN gems = {}

(* C32: the match clock is unset while no player is registered and is      *)
(* started by the command that registers the first player: after every     *)
(* command start_time is set exactly when at least one player is           *)
(* registered, and a command issued with no player registered does not     *)
(* start it.                                                               *)
C32_ClockFollowsRegistration ==
    [][\A w \in Connections :
          Answered(w)
          => /\ Truthy(start_time') <=> DOMAIN players' # {}
             /\ DOMAIN players' = {} => ~Truthy(start_time')]_vars

\* The registration of the first player has just started the clock.
C32_Witness ==
    /\ conn["c1"].pc = "send"
    /\ conn["c1"].req = <<"register_player", "black">>
    /\ conn["c1"].resp = "OK"
    /\ DOMAIN players = {"player_black"}
    /\ start_time = Now

C34_StageWinnerRegistered ==
    [][/\ Truthy(stage_winner') => stage_winner' \in DOMAIN players'
       /\ \A w \in Connections :
            Answered(w)
            => \A p \in {"player_black", "player_white"} :
                  scores'[p] > scores[p] => p \in DOMAIN players']_vars

(* C35: the match is decided only as the direct result of a stage win: in  *)
(* every reachable state match_winner set implies stage_winner set, and a  *)
(* firing of the deferred callback never sets match_winner.                *)
C35_MatchDecidedByStageWin ==
    [][/\ Truthy(match_winner') => Truthy(stage_winner')
       /\ CallbackFires => match_winner' = match_winner]_vars

(* C36: at most one deferred stage transition is pending at any time and   *)
(* no stage is skipped: the stage index goes up only by 1, and only after  *)
(* a stage win recorded in the stage that is left, under every             *)
(* interleaving of commands, resets and timer firings.                     *)
C36_OneTransitionNoSkip ==
    [][/\ BagCardinality(timers') <= 1
       /\ current_level_index' > current_level_index
            => /\ current_level_index' = current_level_index + 1
               /\ Truthy(stage_winner)]_vars

(* C37: with total_stages = 5 the result "draw" cannot be reached: in      *)
(* every reachable state match_winner is unset, player_black or            *)
(* player_white, and when it is set the winner's score is strictly greater *)
(* than the loser's.                                                       *)
C37_NoDraw ==
    /\ match_winner \in {None, "player_black", "player_white"}
    /\ match_winner = "player_black" => scores["player_black"] > scores["player_white"]
    /\ match_winner = "player_white" => scores["player_white"] > scores["player_black"]

(* C38: in every reachable state each colour's score is between 0 and the  *)
(* majority threshold total_stages \div 2 + 1 (3) and the two scores       *)
(* together are at most the 1-based number of the current stage; between   *)
(* resets a score only grows, by exactly 1 per stage win and at most once  *)
(* per loaded stage.                                                       *)
C38_ScoreBounds ==
    [][/\ \A p \in {"player_black", "player_white"} :
            /\ scores'[p] \in 0..((total_stages \div 2) + 1)
            /\ scores'[p] # scores[p]
                 => \/ scores'[p] = scores[p] + 1 /\ ~Truthy(stage_winner)
                                                  /\ stage_winner' = p
                    \/ scores' = [player_black |-> 0, player_white |-> 0]
       /\ scores'["player_black"] + scores'["player_white"]
            <= current_level_index' + 1]_vars

\* The request names a registered player and a hazard of the registry that
\* has the player's colour.
OwnHazard(req) ==
    /\ CommandOf(req) = "check_hazard_collision"
    /\ Len(req) = 3
    /\ req[2] \in DOMAIN players
    /\ req[3] \in DOMAIN hazards
    /\ players[req[2]].color_type = hazards[req[3]].type

(* C39, as stated: check_hazard_collision by a registered player on an     *)
(* existing hazard of the player's own colour is answered OK in every      *)
(* state and leaves the whole state as it was: lives, scores and           *)
(* stage_winner are untouched and no timer is started.                     *)
C39_OwnHazardAlwaysOK ==
    [][\A w \in Connections :
          (/\ Answered(w)
           /\ CommandOf(conn'[w].req) = "check_hazard_collision"
           /\ Len(conn'[w].req) = 3
           /\ conn'[w].req[2] \in DOMAIN players
           /\ conn'[w].req[3] \in DOMAIN hazards
           /\ players[conn'[w].req[2]].color_type = hazards[conn'[w].req[3]].type)
          => /\ conn'[w].resp = "OK"
             /\ engine' = engine
             /\ timers' = timers]_vars

(* C39, amended: the same touch is answered OK while no stage or match     *)
(* winner (stage_winner, match_winner; winner in the single-stage engine)  *)
(* is set and ERROR once one is set; in both cases the whole state is left *)
(* as it was and no timer is started.                                      *)
C39_OwnHazardIsSafe ==
    [][\A w \in Connections :
          (Answered(w) /\ OwnHazard(conn'[w].req))
          => /\ conn'[w].resp = IF Decided \/ Truthy(winner) THEN "ERROR" ELSE "OK"
             /\ engine' = engine
             /\ timers' = timers]_vars

\* White has touched the white pool of stage 1 and plays on unharmed.
C39_Witness ==
    /\ conn["c1"].pc = "send"
    /\ conn["c1"].req = <<"check_hazard_collision", "player_white", "white_pool_0">>
    /\ conn["c1"].resp = "OK"
    /\ ~Decided
    /\ "player_white" \in DOMAIN players
    /\ players["player_white"].lives = 1
    /\ scores = [player_black |-> 0, player_white |-> 0]
    /\ timers = EmptyBag

\* Everything the engine holds besides the players.
EngineButPlayers ==
    <<gems, hazards, walls, exit_area, scores, current_level_index, match_winner,
      stage_winner, start_time, next_gem_id, black_gems_required,
      white_gems_required, winner>>

(* C40: a well-formed set_player_state for a registered player is answered *)
(* OK and changes only that player's x, y and lives, to the values sent:   *)
(* the player's gems_collected and at_exit, the other player, the scores,  *)
(* stage_winner, match_winner, the stage geometry and the timers are as    *)
(* before, also when a stage or match winner is already set.               *)
C40_SetPlayerStateFrame ==
    [][\A w \in Connections :
          (/\ Answered(w)
           /\ CommandOf(conn'[w].req) = "set_player_state"
           /\ ~Malformed(conn'[w].req)
           /\ conn'[w].req[2] \in DOMAIN players)
          => LET req == conn'[w].req
             IN  /\ conn'[w].resp = "OK"
                 /\ players' = [players EXCEPT ![req[2]].x = IntOf[req[3]],
                                               ![req[2]].y = IntOf[req[4]],
                                               ![req[2]].lives = IntOf[req[5]]]
                 /\ EngineButPlayers' = EngineButPlayers
                 /\ timers' = timers]_vars

\* Black was moved to (7, 9) with no life in a stage that white has already
\* won; black's collected gem and the pending advance are still there.
C40_Witness ==
    /\ conn["c1"].pc = "send"
    /\ conn["c1"].req = <<"set_player_state", "player_black", "7", "9", "0">>
    /\ conn["c1"].resp = "OK"
    /\ Truthy(stage_winner)
    /\ "player_black" \in DOMAIN players
    /\ players["player_black"].x = 7
    /\ players["player_black"].y = 9
    /\ players["player_black"].lives = 0
    /\ players["player_black"].gems_collected = 1
    /\ timers # EmptyBag

====
